---- MODULE Spec2Model ----
(***************************************************************************)
(* Model of the ErrorPropagator repository: the Expression class of        *)
(* src/core/IB.py (evaluate, calculate_absolute_uncertainty,               *)
(* calculate_fractional_uncertainty) and the /calculate handler of         *)
(* src/server.py.                                                          *)
(*                                                                         *)
(* Formulas are the sympy expressions that are sums of Laurent monomials   *)
(* (rational coefficient times integer powers of symbols), kept in the     *)
(* canonical form sympy's Add/Mul/Pow constructors keep them in: like      *)
(* terms collected, powers of one base merged.  Abs(x) of a symbol x is a   *)
(* generator of its own, <<x, TRUE>>, next to the plain symbol             *)
(* <<x, FALSE>>.  A coefficient is a rational or one of sympy's two        *)
(* non-finite numbers, zoo (1/0) and nan (0/0).                            *)
(***************************************************************************)
EXTENDS Integers, Sequences, FiniteSets, TLC

(***************************************************************************)
(* Rational numbers <<n, d>>, d > 0, in lowest terms (sympy Rational).     *)
(***************************************************************************)
IAbs(n) == IF n < 0 THEN -n ELSE n

RECURSIVE GCD(_, _)
GCD(x, y) == IF y = 0 THEN x ELSE GCD(y, x % y)

IDiv(n, d) == IF n >= 0 THEN n \div d ELSE -((-n) \div d)

Rat(n, d) ==
    LET g == GCD(IAbs(n), IAbs(d))
        s == IF d < 0 THEN -1 ELSE 1
    IN  <<IDiv(s * n, g), IDiv(s * d, g)>>

RInt(n) == <<n, 1>>
RZero == RInt(0)
ROne == RInt(1)
RAdd(x, y) == Rat(x[1] * y[2] + y[1] * x[2], x[2] * y[2])
RMul(x, y) == Rat(x[1] * y[1], x[2] * y[2])
RDiv(x, y) == Rat(x[1] * y[2], x[2] * y[1])
RAbs(x) == <<IAbs(x[1]), x[2]>>

RECURSIVE RPowNat(_, _)
RPowNat(x, e) == IF e = 0 THEN ROne ELSE RMul(x, RPowNat(x, e - 1))

RPow(x, e) == IF e >= 0 THEN RPowNat(x, e) ELSE RDiv(ROne, RPowNat(x, -e))

\* sympy.zoo (ComplexInfinity) and sympy.nan.
Zoo == <<1, 0>>
NaN == <<0, 0>>

Finite(x) == x[2] # 0

\* Mul of two numbers: zoo * 0 is nan, zoo times anything else is zoo.
CMul(x, y) ==
    IF x = NaN \/ y = NaN THEN NaN
    ELSE IF x = Zoo \/ y = Zoo
         THEN (IF x = RZero \/ y = RZero THEN NaN ELSE Zoo)
         ELSE RMul(x, y)

\* Pow of an integer and a non-zero integer exponent: 0 ** -n is zoo.
CPow(v, e) ==
    IF v = 0 THEN (IF e < 0 THEN Zoo ELSE RZero) ELSE RPow(RInt(v), e)

(***************************************************************************)
(* Monomials: a function from generators to non-zero integer exponents.    *)
(* Polynomials: a set of terms [c |-> coefficient, m |-> monomial], one    *)
(* finite term per monomial, no zero coefficient; nan is a polynomial of   *)
(* its own.                                                                *)
(***************************************************************************)
Plain(name) == <<name, FALSE>>
Wrapped(name) == <<name, TRUE>>

MonoOne == [g \in {} |-> 0]

Exp(m, g) == IF g \in DOMAIN m THEN m[g] ELSE 0

MonoOf(E, D) == [g \in {h \in D : E[h] # 0} |-> E[g]]

MonoMul(m1, m2) ==
    LET D == DOMAIN m1 \cup DOMAIN m2
    IN  MonoOf([g \in D |-> Exp(m1, g) + Exp(m2, g)], D)

Term(c, m) == [c |-> c, m |-> m]

Zero == {}

NaNPoly == {Term(NaN, MonoOne)}

RECURSIVE RSum(_)
RSum(f) ==
    IF DOMAIN f = {} THEN RZero
    ELSE LET x == CHOOSE y \in DOMAIN f : TRUE
         IN  RAdd(f[x], RSum([y \in DOMAIN f \ {x} |-> f[y]]))

\* Add of the terms img[t]: finite like terms are collected; nan, or zoo
\* twice, makes the sum nan; a zoo addend absorbs the finite numbers; a
\* product that holds zoo next to symbols stays an addend of its own.  (The
\* sums modelled hold one infinite addend at most.)
Collect(img) ==
    LET T == DOMAIN img
        pure == {t \in T : img[t].c = Zoo /\ img[t].m = MonoOne}
        fin == {t \in T : Finite(img[t].c)}
        finite ==
            {x \in {Term(RSum([t \in {u \in fin : img[u].m = m} |-> img[t].c]), m) :
                        m \in {img[t].m : t \in fin}} :
                x.c # RZero}
        infinite == {img[t] : t \in {u \in T : img[u].c = Zoo}}
    IN  IF (\E t \in T : img[t].c = NaN) \/ Cardinality(pure) >= 2 THEN NaNPoly
        ELSE IF pure # {} THEN infinite \cup {x \in finite : x.m # MonoOne}
        ELSE infinite \cup finite

PolyAdd(p, q) == Collect([x \in ({1} \X p) \cup ({2} \X q) |-> x[2]])

RECURSIVE PolySum(_)
PolySum(s) == IF s = <<>> THEN Zero ELSE PolyAdd(Head(s), PolySum(Tail(s)))

TermMul(s, t) == Term(CMul(s.c, t.c), MonoMul(s.m, t.m))

PolyMulTerm(p, t) == Collect([s \in p |-> TermMul(s, t)])

Num(n) == IF n = 0 THEN Zero ELSE {Term(RInt(n), MonoOne)}
Sym(name) == {Term(ROne, Plain(name) :> 1)}
Pw(name, e) == {Term(ROne, MonoOf(Plain(name) :> e, {Plain(name)}))}
One == Num(1)

RECURSIVE Prod(_)
Prod(s) ==
    IF s = <<>> THEN One
    ELSE LET h == CHOOSE t \in Head(s) : TRUE IN PolyMulTerm(Prod(Tail(s)), h)

FreeSymbols(p) == {g[1] : g \in UNION {DOMAIN t.m : t \in p}}

(***************************************************************************)
(* The symbolic engine, as far as the Expression class uses it.            *)
(***************************************************************************)
\* expr.diff(var): the partial derivative with respect to the symbol var.
Diff(p, var) ==
    LET g == Plain(var)
    IN  {Term(RMul(t.c, RInt(t.m[g])),
              MonoOf([t.m EXCEPT ![g] = @ - 1], DOMAIN t.m)) :
            t \in {s \in p : g \in DOMAIN s.m}}

\* sympy.Abs(k * x^e * ...) = |k| * Abs(x)^e * ..., for an argument that is
\* zero or a single monomial (the derivatives of the formulas modelled).
AbsOf(p) ==
    {Term(RAbs(t.c), [g \in {Wrapped(h[1]) : h \in DOMAIN t.m} |-> t.m[Plain(g[1])]]) :
        t \in p}

\* sympy.Q.positive(symbol), an AppliedPredicate.
Q_positive(name) == <<"Q.positive", name>>

PositiveNames(assumptions) == {x[2] : x \in {y \in assumptions : y[1] = "Q.positive"}}

\* refine of one monomial: Abs(x) becomes x for every x known to be positive.
RefineMono(m, pos) ==
    LET D == {Plain(g[1]) : g \in DOMAIN m} \cup {g \in DOMAIN m : g[2]}
        E == [g \in D |->
                IF g[2]
                THEN IF g[1] \in pos THEN 0 ELSE Exp(m, g)
                ELSE Exp(m, g) + (IF g[1] \in pos THEN Exp(m, Wrapped(g[1])) ELSE 0)]
    IN  MonoOf(E, D)

\* sympy.refine(expr) under the assumptions given (the global ones, line 77).
Refine(p, assumptions) ==
    Collect([t \in p |-> Term(t.c, RefineMono(t.m, PositiveNames(assumptions)))])

\* type(expr) of a canonical sympy expression.
TypeOf(p) ==
    IF p = Zero THEN "Zero"
    ELSE IF Cardinality(p) >= 2 THEN "Add"
    ELSE LET t == CHOOSE x \in p : TRUE
             n == Cardinality(DOMAIN t.m)
         IN  IF t.c = NaN THEN "NaN"
             ELSE IF n = 0 THEN (IF t.c = Zoo THEN "ComplexInfinity" ELSE "Number")
             ELSE IF t.c # ROne \/ n >= 2 THEN "Mul"
             ELSE LET g == CHOOSE h \in DOMAIN t.m : TRUE
                  IN  IF t.m[g] # 1 THEN "Pow"
                      ELSE IF g[2] THEN "Abs" ELSE "Symbol"

\* The value a generator takes when its symbol is replaced by the integer v,
\* raised to the exponent e.  (The substitutions modelled put no zero under
\* a negative power of Abs, where sympy gives oo, not zoo.)
GenValue(g, v, e) == IF g[2] THEN CPow(IAbs(v), e) ELSE CPow(v, e)

RECURSIVE MonoValue(_, _, _)
MonoValue(m, V, gens) ==
    IF gens = {} THEN ROne
    ELSE LET g == CHOOSE h \in gens : TRUE
         IN  CMul(GenValue(g, V[g[1]], m[g]), MonoValue(m, V, gens \ {g}))

\* expr.subs(name, v) on a polynomial: every term is rebuilt with the powers
\* of the symbol replaced by numbers, and the sum is rebuilt from the terms.
Subs1(p, name, v) ==
    Collect([t \in p |->
        LET hit == {g \in DOMAIN t.m : g[1] = name}
        IN  Term(CMul(t.c, MonoValue(t.m, name :> v, hit)),
                 [g \in DOMAIN t.m \ hit |-> t.m[g]])])

(***************************************************************************)
(* The formula of an Expression stands for p * inv / den.  A canonical     *)
(* polynomial p ("poly") has inv = den = 1.  A quotient ("quot") is the    *)
(* sum of the terms of p, each times Pow(den, -1), for a sum den of two    *)
(* terms or more, whose inverse sympy keeps as a factor of its own.  An    *)
(* unevaluated product ("mul") is Mul(p, Pow(expr, -1), evaluate=False):   *)
(* its second argument is the polynomial inv, or Pow(den, -1).             *)
(***************************************************************************)
PolyF(p) == [kind |-> "poly", p |-> p, inv |-> One, den |-> One, evaluated |-> TRUE]
QuotF(num, den) == [kind |-> "quot", p |-> num, inv |-> One, den |-> den, evaluated |-> TRUE]

FormulaSymbols(f) == FreeSymbols(f.p) \cup FreeSymbols(f.inv) \cup FreeSymbols(f.den)

\* Pow(k * x^e * ..., -1) = (1/k) * x^-e * ...
TermInv(t) == Term(RDiv(ROne, t.c), [g \in DOMAIN t.m |-> 0 - t.m[g]])

\* Pow(expr, -1): zoo for zero, the inverse factor by factor for one term,
\* and a power of its own for a sum.
Inverse(expr) ==
    IF expr = Zero THEN PolyF({Term(Zoo, MonoOne)})
    ELSE IF Cardinality(expr) = 1 THEN PolyF({TermInv(t) : t \in expr})
    ELSE QuotF(One, expr)

\* The sum of the products of each term of p with the term q (Mul, then
\* Add); 0 * zoo is nan.
PolyMul(p, q) ==
    IF p = Zero \/ q = Zero
    THEN (IF \E t \in p \cup q : ~Finite(t.c) THEN NaNPoly ELSE Zero)
    ELSE Collect([x \in p \X q |-> TermMul(x[1], x[2])])

\* num / den, evaluated: each term of num times Pow(den, -1); common
\* factors cancel when den is one term.
Divide(num, den) ==
    LET inverse == Inverse(den)
    IN  IF inverse.kind = "poly" THEN PolyF(PolyMul(num, inverse.p))
        ELSE IF num = Zero THEN PolyF(Zero)
        ELSE QuotF(num, den)

\* sympy.Mul(p, sympy.Pow(expr, -1), evaluate=False)
UnevaluatedMul(p, inverse) ==
    [kind |-> "mul", p |-> p, inv |-> inverse.p, den |-> inverse.den, evaluated |-> FALSE]

\* f + g for the formulas the per-addend loop adds up: polynomials, or
\* quotients by one and the same sum.
FormulaAdd(f, g) ==
    IF f.kind = "poly" /\ g.kind = "poly" THEN PolyF(PolyAdd(f.p, g.p))
    ELSE IF f = PolyF(Zero) THEN g
    ELSE QuotF(PolyAdd(f.p, g.p), g.den)

\* expr.subs(name, v) on a formula.  A product that the replacement does
\* not touch is returned as it is (unevaluated if it was); one that is
\* touched is rebuilt from its new arguments by Mul, evaluated.
Subs1Formula(f, name, v) ==
    IF f.kind = "poly" THEN PolyF(Subs1(f.p, name, v))
    ELSE IF name \notin FormulaSymbols(f) THEN f
    ELSE IF f.den = One THEN PolyF(PolyMul(Subs1(f.p, name, v), Subs1(f.inv, name, v)))
    ELSE Divide(Subs1(f.p, name, v), Subs1(f.den, name, v))

\* subs sorts the keys of a dictionary of symbols by name and replaces one
\* after the other: the names in that order.
NameOrder == <<"a", "b", "c", "s", "z", "Δa", "Δb", "Δc", "Δs">>

RECURSIVE SubsInOrder(_, _, _)
SubsInOrder(f, V, order) ==
    IF order = <<>> THEN f
    ELSE SubsInOrder(IF Head(order) \in DOMAIN V
                     THEN Subs1Formula(f, Head(order), V[Head(order)])
                     ELSE f,
                     V, Tail(order))

\* expr.subs(V), V a function from symbol names to integers.
SubsFormula(f, V) == SubsInOrder(f, V, NameOrder)

(***************************************************************************)
(* class Expression (src/core/IB.py).                                      *)
(***************************************************************************)
\* An element of an argument list: a sympy Symbol, or (nothing checks the
\* list) a plain Python string, which has no attribute "name".
SymbolArg(name) == [cls |-> "Symbol", name |-> name]
StrArg(name) == [cls |-> "str", name |-> name]

\* Expression.__init__: stores both fields as given.
Expression(args, expr) == [args |-> args, expr |-> expr]

\* sympy.symbols('Δ' + var.name)
UncertaintySymbol(name) == "Δ" \o name

\* Mutant of InitialUncertainty: the sum starts at one.
InitialUncertaintyOne == One

\* uncertainty_expr = sympy.Integer(0)
InitialUncertainty == Zero

\* Mutant of AppendArg: the uncertainty variable is put in front.
AppendArgFront(uncertainty_args, d_var) == <<SymbolArg(d_var)>> \o uncertainty_args

\* uncertainty_args.append(d_var)
AppendArg(uncertainty_args, d_var) == Append(uncertainty_args, SymbolArg(d_var))

\* Mutant of UncertaintyTerm: the factor is the symbol 'Δ', the name left out.
UncertaintyTermUnnamed(expr, var, d_var) ==
    PolyMulTerm(AbsOf(Diff(expr, var)), Term(ROne, Plain("Δ") :> 1))

\* sympy.Abs(self.expr.diff(var)) * d_var
UncertaintyTerm(expr, var, d_var) ==
    PolyMulTerm(AbsOf(Diff(expr, var)), Term(ROne, Plain(d_var) :> 1))

\* Mutant of SubsMap: only Symbol keys address a symbol.
SubsMapSymbolKeys(values) ==
    [n \in {k.name : k \in {j \in DOMAIN values : j.cls = "Symbol"}} |->
        values[CHOOSE k \in DOMAIN values : k.cls = "Symbol" /\ k.name = n]]

\* subs addresses a symbol by a Symbol key or by a str key ("when old is a
\* string we prefer Symbol"): the names a values dictionary gives values to.
SubsMap(values) ==
    [n \in {k.name : k \in DOMAIN values} |->
        values[CHOOSE k \in DOMAIN values : k.name = n]]

\* Expression.evaluate: self.expr.subs(values)
Evaluate(self, values) == SubsFormula(self.expr, SubsMap(values))

\* type(absolute_uncertainty): the class of the object that
\* calculate_absolute_uncertainty returns.
TypeOfObject(expression) == "Expression"

\* The addends of a sympy Add (expr.args), in some fixed order.
RECURSIVE Addends(_)
Addends(p) ==
    IF p = Zero THEN <<>>
    ELSE LET t == CHOOSE x \in p : TRUE IN <<{t}>> \o Addends(p \ {t})

\* Mutant of PerAddend: = in place of +=, the last addend only.
PerAddendAssigned(addends, expr, acc) ==
    IF addends = <<>> THEN acc ELSE Divide(addends[Len(addends)], expr)

\* for addend in absolute_uncertainty.expr.args:
\*     frac_uncertainty_expr += addend / self.expr
RECURSIVE PerAddend(_, _, _)
PerAddend(addends, expr, acc) ==
    IF addends = <<>> THEN acc
    ELSE PerAddend(Tail(addends), expr, FormulaAdd(acc, Divide(Head(addends), expr)))

\* The branch lines 94-100 take.
FractionalBranch(absolute_uncertainty) ==
    IF TypeOf(absolute_uncertainty.expr.p) = "Add" THEN "per_addend"
    ELSE IF \/ TypeOf(absolute_uncertainty.expr.p) = "Mul"
            \/ TypeOfObject(absolute_uncertainty) = "Pow"
         THEN "whole"
         ELSE "unevaluated"

\* Lines 93-101 of calculate_fractional_uncertainty.
FractionalFormula(self, absolute_uncertainty) ==
    LET branch == FractionalBranch(absolute_uncertainty)
        abs == absolute_uncertainty.expr.p
    IN  IF branch = "per_addend"
        THEN PerAddend(Addends(abs), self.expr.p, PolyF(Zero))
        ELSE IF branch = "whole"
        THEN Divide(abs, self.expr.p)
        ELSE UnevaluatedMul(abs, Inverse(self.expr.p))

(***************************************************************************)
(* The /calculate handler (src/server.py).                                 *)
(***************************************************************************)
\* What class Expression defines.
ExpressionAttributes ==
    {"__init__", "__repr__", "evaluate", "calculate_absolute_uncertainty",
     "calculate_fractional_uncertainty", "to_latex", "from_latex"}

\* The keyword parameters each method accepts.
AcceptedKeywords(method) ==
    IF method = "evaluate" THEN {"values"} ELSE {}

\* The calls the try block makes on Expression, in order.
HandlerCalls ==
    << [method |-> "from_string", keywords |-> {}],
       [method |-> "calculate_absolute_uncertainty", keywords |-> {"refine"}],
       [method |-> "calculate_fractional_uncertainty", keywords |-> {"refine"}],
       [method |-> "evaluate", keywords |-> {"precision"}],
       [method |-> "to_latex", keywords |-> {}],
       [method |-> "evaluate", keywords |-> {"precision"}],
       [method |-> "to_latex", keywords |-> {}],
       [method |-> "evaluate", keywords |-> {"precision"}] >>

\* The exception a call raises before its body runs, or "none".
CallRaises(call) ==
    IF call.method \notin ExpressionAttributes THEN "AttributeError"
    ELSE IF ~(call.keywords \subseteq AcceptedKeywords(call.method)) THEN "TypeError"
    ELSE "none"

StringFields ==
    {"value", "absoluteUncertaintyExpr", "absoluteUncertainty",
     "fractionalUncertaintyExpr", "percentageUncertainty"}

ResponseFields == {"success"} \cup StringFields

\* jsonify({...}) of lines 93-100.
FailureResponse ==
    [status |-> 200, success |-> FALSE, fields |-> ResponseFields, blank |-> StringFields]

\* jsonify({...}) of lines 83-90.
SuccessResponse ==
    [status |-> 200, success |-> TRUE, fields |-> ResponseFields, blank |-> {}]

\* What Flask answers when the view does not return: an HTTP error page.
ErrorPage(status) == [status |-> status, success |-> FALSE, fields |-> {}, blank |-> {}]

NoResponse == ErrorPage(0)

\* request.get_json().get(...), lines 72-77, outside the try block: a body
\* that is not JSON is refused by get_json (400), a JSON body that is not an
\* object has no .get, and the AttributeError leaves the view (500).
ReadFieldsRaises(body) ==
    IF body.json = "malformed" THEN 400
    ELSE IF body.json # "object" THEN 500
    ELSE 0

\* Lines 78-100: the try block and its except clause.
TryBlock(body) ==
    IF \E i \in DOMAIN HandlerCalls : CallRaises(HandlerCalls[i]) # "none"
    THEN FailureResponse
    ELSE SuccessResponse

(***************************************************************************)
(* Bounds and input sets.                                                  *)
(***************************************************************************)
MaxArgs == 3
NThreads == 2

Threads == 1..NThreads

\* The formulas of the docstrings, and the shapes they leave out.  Every
\* symbol occurs in one monomial only, so a partial derivative is zero or a
\* single monomial (Abs of a sum is outside the model).
F_sum == PolySum(<<Sym("a"), Sym("b"), Sym("c")>>)
F_quotient == Prod(<<Sym("a"), Sym("b"), Pw("c", -1)>>)
F_scaled == Prod(<<Sym("c"), Sym("a")>>)
F_difference == PolySum(<<Sym("a"), Sym("b"), PolyMulTerm(Sym("c"), Term(RInt(-1), MonoOne))>>)
F_symbol == Sym("a")
F_collision == Prod(<<Sym("a"), Sym("Δa")>>)
F_reciprocal == Prod(<<Sym("a"), Pw("Δa", -1)>>)

Formulas ==
    {F_sum, F_quotient, F_scaled, F_difference, F_symbol, F_collision, F_reciprocal}

ArgPool == {SymbolArg("a"), SymbolArg("b"), SymbolArg("c"), StrArg("s")}

RECURSIVE ArgListsOf(_)
ArgListsOf(n) ==
    IF n = 0 THEN {<<>>}
    ELSE LET shorter == ArgListsOf(n - 1)
         IN  shorter \cup
             {Append(l, x) : l \in {k \in shorter : Len(k) = n - 1},
                             x \in ArgPool}

NoDuplicate(l) == \A i, j \in DOMAIN l : i # j => l[i].name # l[j].name

ArgLists == {l \in ArgListsOf(MaxArgs) : NoDuplicate(l)}

InputExpressions == {Expression(args, PolyF(f)) : args \in ArgLists, f \in Formulas}

\* What the concurrent specification constructs.
ConcurrentExpressions ==
    {Expression(<<SymbolArg(n)>>, PolyF(F_scaled)) : n \in {"a", "b"}}

\* What the specification of evaluate constructs.  F_difference, which the
\* first assignment of values below makes zero, comes with one argument at
\* most: its fractional uncertainty then has one term, and a substitution
\* gives at most one infinite addend.
EvaluatedExpressions ==
    {Expression(args, PolyF(f)) :
        args \in {<<>>, <<SymbolArg("a")>>},
        f \in Formulas}
    \cup
    {Expression(args, PolyF(f)) :
        args \in {<<SymbolArg("c"), SymbolArg("a")>>,
                  <<SymbolArg("a"), SymbolArg("b"), SymbolArg("c")>>},
        f \in Formulas \ {F_difference}}

AssumptionPool == {Q_positive("c"), Q_positive("Δa")}

ConcurrentAssumptionPool == {Q_positive("c")}

ValueNames == {"a", "b", "c", "Δa", "Δb", "Δc"}

\* Two assignments of integers to the symbols.
ValueOf(variant, name) ==
    IF variant = 1
    THEN (IF name = "a" THEN 1 ELSE IF name = "b" THEN 2 ELSE IF name = "c" THEN 3 ELSE 1)
    ELSE (IF name = "c" THEN -2 ELSE IF name = "a" THEN 0 ELSE 3)

KeySets ==
    {{SymbolArg(n) : n \in S} : S \in {{}, {"a"}, {"a", "b", "c"}, ValueNames}}
    \cup {{StrArg(n) : n \in S} : S \in {{"a", "b"}, {"a", "b", "c"}}}
    \cup {{SymbolArg("a"), StrArg("c"), StrArg("z")}}

ValueMaps == {[k \in K |-> ValueOf(variant, k.name)] : K \in KeySets, variant \in {1, 2}}

RequestBodies ==
    [json : {"object"},
     expr : {"a*b/c", "a+b-c", "a+*", ""},
     args : {<<"a", "b", "c">>, <<"a">>, <<>>},
     vars : {<<>>, <<"c">>},
     values : {{}, {"a"}, {"a", "b", "c"}}]
    \cup
    [json : {"array", "null", "malformed"},
     expr : {""}, args : {<<>>}, vars : {<<>>}, values : {{}}]

(***************************************************************************)
(* State.                                                                  *)
(***************************************************************************)
VARIABLES
    global_assumptions,  \* sympy's process-wide assumption set
    obj,                 \* per thread: <<>> or <<the Expression it holds>>
    pc,                  \* per thread: where it is in a call
    frame,               \* per thread: the locals of the call
    result,              \* per thread: how its last call ended
    server_pc,           \* where the /calculate handler is
    request,             \* the body of the request being handled
    response             \* the last response sent

vars == <<global_assumptions, obj, pc, frame, result, server_pc, request, response>>
engine_vars == <<global_assumptions, obj, pc, frame, result>>
server_vars == <<server_pc, request, response>>

NoExpression == Expression(<<>>, PolyF(Zero))

NoFrame ==
    [op |-> "none", assumptions |-> {}, i |-> 0, uncertainty_args |-> <<>>,
     uncertainty_expr |-> Zero, seen |-> {}, absolute_uncertainty |-> NoExpression]

NoResult ==
    [kind |-> "none", self |-> NoExpression, assumptions |-> {}, seen |-> {},
     value |-> NoExpression, absolute_uncertainty |-> NoExpression,
     branch |-> "none", values |-> <<>>, out |-> PolyF(Zero), exc |-> "none"]

NoRequest == [json |-> "none", expr |-> "", args |-> <<>>, vars |-> <<>>, values |-> {}]

Init ==
    /\ global_assumptions = {}
    /\ obj = [t \in Threads |-> <<>>]
    /\ pc = [t \in Threads |-> "idle"]
    /\ frame = [t \in Threads |-> NoFrame]
    /\ result = [t \in Threads |-> NoResult]
    /\ server_pc = "idle"
    /\ request = NoRequest
    /\ response = NoResponse

Self(t) == obj[t][1]

(***************************************************************************)
(* Actions of a thread that uses the Expression class.                     *)
(***************************************************************************)
\* Expression(args, expr)
Construct(t, inputs) ==
    /\ pc[t] = "idle"
    /\ \E e \in inputs : obj' = [obj EXCEPT ![t] = <<e>>]
    /\ result' = [result EXCEPT ![t] = NoResult]
    /\ UNCHANGED <<global_assumptions, pc, frame, server_vars>>

\* Entry of calculate_absolute_uncertainty (lines 67-69), called directly
\* (op = "abs") or from line 92 of calculate_fractional_uncertainty ("frac").
Call(t, pool) ==
    /\ pc[t] = "idle"
    /\ obj[t] # <<>>
    /\ \E op \in {"abs", "frac"}, assumptions \in SUBSET pool :
        /\ frame' = [frame EXCEPT ![t] =
                        [NoFrame EXCEPT !.op = op, !.assumptions = assumptions, !.i = 1,
                                        !.uncertainty_expr = InitialUncertainty]]
        /\ global_assumptions' = global_assumptions \cup assumptions
    /\ pc' = [pc EXCEPT ![t] = "loop"]
    /\ result' = [result EXCEPT ![t] = NoResult]
    /\ UNCHANGED <<obj, server_vars>>

\* One iteration of the loop of lines 71-75; var.name raises AttributeError
\* when var is not a Symbol, and nothing catches it.
LoopStep(t) ==
    /\ pc[t] = "loop"
    /\ frame[t].i <= Len(Self(t).args)
    /\ LET var == Self(t).args[frame[t].i]
           d_var == UncertaintySymbol(var.name)
       IN  IF var.cls # "Symbol"
           THEN /\ pc' = [pc EXCEPT ![t] = "idle"]
                /\ frame' = [frame EXCEPT ![t] = NoFrame]
                /\ result' = [result EXCEPT ![t] =
                                [NoResult EXCEPT !.kind = "raised", !.self = Self(t),
                                                 !.assumptions = frame[t].assumptions,
                                                 !.exc = "AttributeError"]]
                /\ UNCHANGED global_assumptions
           ELSE /\ frame' = [frame EXCEPT
                                ![t].i = @ + 1,
                                ![t].uncertainty_args = AppendArg(@, d_var),
                                ![t].uncertainty_expr =
                                    PolyAdd(@, UncertaintyTerm(Self(t).expr.p, var.name, d_var))]
                /\ global_assumptions' = global_assumptions \cup {Q_positive(var.name)}
                /\ UNCHANGED <<pc, result>>
    /\ UNCHANGED <<obj, server_vars>>

\* Line 77: sympy.refine under the global assumptions of the moment.
RefineStep(t) ==
    /\ pc[t] = "loop"
    /\ frame[t].i > Len(Self(t).args)
    /\ frame' = [frame EXCEPT
                    ![t].uncertainty_expr = Refine(@, global_assumptions),
                    ![t].seen = global_assumptions]
    /\ pc' = [pc EXCEPT ![t] = "clear"]
    /\ UNCHANGED <<global_assumptions, obj, result, server_vars>>

\* Lines 78-79: global_assumptions.clear() and the return.
ClearStep(t) ==
    /\ pc[t] = "clear"
    /\ global_assumptions' = {}
    /\ LET returned == Expression(frame[t].uncertainty_args, PolyF(frame[t].uncertainty_expr))
       IN  IF frame[t].op = "abs"
           THEN /\ pc' = [pc EXCEPT ![t] = "idle"]
                /\ frame' = [frame EXCEPT ![t] = NoFrame]
                /\ result' = [result EXCEPT ![t] =
                                [NoResult EXCEPT !.kind = "abs", !.self = Self(t),
                                                 !.assumptions = frame[t].assumptions,
                                                 !.seen = frame[t].seen,
                                                 !.value = returned]]
           ELSE /\ pc' = [pc EXCEPT ![t] = "fractional"]
                /\ frame' = [frame EXCEPT ![t].absolute_uncertainty = returned]
                /\ UNCHANGED result
    /\ UNCHANGED <<obj, server_vars>>

\* Lines 93-101 of calculate_fractional_uncertainty.
FractionalStep(t) ==
    /\ pc[t] = "fractional"
    /\ LET absolute_uncertainty == frame[t].absolute_uncertainty
       IN  result' = [result EXCEPT ![t] =
                        [NoResult EXCEPT
                            !.kind = "frac", !.self = Self(t),
                            !.assumptions = frame[t].assumptions,
                            !.seen = frame[t].seen,
                            !.absolute_uncertainty = absolute_uncertainty,
                            !.branch = FractionalBranch(absolute_uncertainty),
                            !.value = Expression(absolute_uncertainty.args,
                                                 FractionalFormula(Self(t), absolute_uncertainty))]]
    /\ pc' = [pc EXCEPT ![t] = "idle"]
    /\ frame' = [frame EXCEPT ![t] = NoFrame]
    /\ UNCHANGED <<global_assumptions, obj, server_vars>>

\* The Expressions a thread can call evaluate on: the one it constructed and
\* the one its last call returned.
Receivers(t) ==
    {Self(t)} \cup (IF result[t].kind \in {"abs", "frac"} THEN {result[t].value} ELSE {})

\* Expression.evaluate(values), lines 43-54: the sympy expression returned
\* is kept in out.
EvaluateCall(t) ==
    /\ pc[t] = "idle"
    /\ obj[t] # <<>>
    /\ \E self \in Receivers(t), values \in ValueMaps :
        result' = [result EXCEPT ![t] =
                     [NoResult EXCEPT !.kind = "eval", !.self = self, !.values = values,
                                      !.out = Evaluate(self, values)]]
    /\ UNCHANGED <<global_assumptions, obj, pc, frame, server_vars>>

(***************************************************************************)
(* Actions of the /calculate handler.                                      *)
(***************************************************************************)
Receive ==
    /\ server_pc = "idle"
    /\ \E body \in RequestBodies : request' = body
    /\ server_pc' = "fields"
    /\ response' = NoResponse
    /\ UNCHANGED engine_vars

ReadFields ==
    /\ server_pc = "fields"
    /\ IF ReadFieldsRaises(request) # 0
       THEN /\ response' = ErrorPage(ReadFieldsRaises(request))
            /\ server_pc' = "idle"
       ELSE /\ server_pc' = "try"
            /\ UNCHANGED response
    /\ UNCHANGED <<request, engine_vars>>

Respond ==
    /\ server_pc = "try"
    /\ response' = TryBlock(request)
    /\ server_pc' = "idle"
    /\ UNCHANGED <<request, engine_vars>>

(***************************************************************************)
(* Specifications: one caller deriving uncertainties, one caller that also *)
(* evaluates, concurrent callers, the handler.                             *)
(***************************************************************************)
Next ==
    \/ Construct(1, InputExpressions)
    \/ Call(1, AssumptionPool)
    \/ LoopStep(1)
    \/ RefineStep(1)
    \/ ClearStep(1)
    \/ FractionalStep(1)

Spec == Init /\ [][Next]_vars

NextEvaluate ==
    \/ Construct(1, EvaluatedExpressions)
    \/ Call(1, AssumptionPool)
    \/ LoopStep(1)
    \/ RefineStep(1)
    \/ ClearStep(1)
    \/ FractionalStep(1)
    \/ EvaluateCall(1)

SpecEvaluate == Init /\ [][NextEvaluate]_vars

NextConcurrent ==
    \E t \in Threads :
        \/ Construct(t, ConcurrentExpressions)
        \/ Call(t, ConcurrentAssumptionPool)
        \/ LoopStep(t)
        \/ RefineStep(t)
        \/ ClearStep(t)
        \/ FractionalStep(t)

SpecConcurrent == Init /\ [][NextConcurrent]_vars

NextServer == Receive \/ ReadFields \/ Respond

SpecServer == Init /\ [][NextServer]_vars

(***************************************************************************)
(* Claims.                                                                 *)
(***************************************************************************)
Names(args) == {args[i].name : i \in DOMAIN args}

Idle == \A t \in Threads : pc[t] = "idle"

\* C1: once every call has ended (returned or raised), the process-wide
\* assumption set is empty: no caller-supplied and no implicit positivity
\* assumption survives into the next call.
C1_NoAssumptionSurvives == Idle => global_assumptions = {}

\* C2: with derivations interleaved, the refine step of each derivation sees
\* exactly its own caller assumptions plus the positivity of its own declared
\* variables.
C2_RefineSeesOwnAssumptions ==
    \A t \in Threads :
        pc[t] = "clear" =>
            frame[t].seen =
                frame[t].assumptions \cup {Q_positive(n) : n \in Names(Self(t).args)}

\* C3: the result of calculate_absolute_uncertainty has one argument per
\* argument of e, the i-th being the symbol named "Δ" + name of e.args[i].
C3_UncertaintyArguments ==
    \A t \in Threads :
        result[t].kind = "abs" =>
            /\ Len(result[t].value.args) = Len(result[t].self.args)
            /\ \A i \in DOMAIN result[t].self.args :
                /\ result[t].value.args[i].cls = "Symbol"
                /\ result[t].value.args[i].name = "Δ" \o result[t].self.args[i].name

C3_Witness ==
    \E t \in Threads :
        /\ result[t].kind = "abs"
        /\ Len(result[t].self.args) = 3
        /\ result[t].self.args[1].name = "c"

\* C4: on an Expression with no variables calculate_absolute_uncertainty
\* returns normally, with no arguments and the formula zero, whatever the
\* formula of the Expression is.
C4_EmptyVariables ==
    \A t \in Threads :
        (result[t].kind \in {"abs", "raised"} /\ result[t].self.args = <<>>) =>
            /\ result[t].kind = "abs"
            /\ result[t].value.args = <<>>
            /\ result[t].value.expr.kind = "poly"
            /\ TypeOf(result[t].value.expr.p) = "Zero"

C4_Witness ==
    \E t \in Threads :
        /\ result[t].kind = "abs"
        /\ result[t].self.args = <<>>
        /\ result[t].self.expr.p = F_quotient
        /\ result[t].assumptions # {}

\* The points the fractional identity is tested at: every assignment of these
\* integers to the symbols of the two formulas.
PointValues == {-2, 1, 3}

Points(names) == [names -> PointValues]

\* The rational a polynomial, and a formula, stand for at a point.
ValueAt(p, V) == RSum([t \in p |-> RMul(t.c, MonoValue(t.m, V, DOMAIN t.m))])

FormulaValueAt(f, V) ==
    RDiv(RMul(ValueAt(f.p, V), ValueAt(f.inv, V)), ValueAt(f.den, V))

\* C5: the formula calculate_fractional_uncertainty returns equals the
\* absolute-uncertainty formula divided by the formula of e (at every point
\* where that formula is not zero), for every shape of the absolute formula,
\* and its arguments are those of the absolute-uncertainty result.
C5_FractionalIdentity ==
    \A t \in Threads :
        result[t].kind = "frac" =>
            LET e == result[t].self.expr
                abs == result[t].absolute_uncertainty
                frac == result[t].value
            IN  /\ frac.args = abs.args
                /\ frac.args = [i \in DOMAIN result[t].self.args |->
                                    SymbolArg("Δ" \o result[t].self.args[i].name)]
                /\ \A V \in Points(FormulaSymbols(e) \cup FormulaSymbols(abs.expr)) :
                        ValueAt(e.p, V) # RZero =>
                            /\ FormulaSymbols(frac.expr) \subseteq DOMAIN V
                            /\ FormulaValueAt(frac.expr, V) =
                                RDiv(ValueAt(abs.expr.p, V), ValueAt(e.p, V))

C5_Witness ==
    \E t \in Threads :
        /\ result[t].kind = "frac"
        /\ TypeOf(result[t].absolute_uncertainty.expr.p) = "Add"
        /\ result[t].value.expr.kind = "quot"
        /\ Cardinality(result[t].value.expr.p) = 3
        /\ TypeOf(result[t].self.expr.p) = "Add"
        /\ result[t].assumptions # {}

\* C6: every request gets a response with all six fields; after a failure
\* success is false and the five string fields are blank.
C6_AlwaysWellFormed ==
    (server_pc = "idle" /\ request.json # "none") =>
        /\ response.status = 200
        /\ response.fields = ResponseFields
        /\ ~response.success => response.blank = StringFields

\* A request C7 speaks of: valid text, its arguments declared, a value for each.
ValidRequest(body) ==
    /\ body.json = "object"
    /\ body.expr \in {"a*b/c", "a+b-c"}
    /\ body.args = <<"a", "b", "c">>
    /\ body.values = {"a", "b", "c"}

\* C7: a valid request is answered with success = true and the five values.
C7_ValidRequestSucceeds ==
    (server_pc = "idle" /\ ValidRequest(request)) =>
        /\ response.success
        /\ response.fields = ResponseFields
        /\ response.blank = {}

Contained(expression) == FormulaSymbols(expression.expr) \subseteq Names(expression.args)

\* C8 as stated: every Expression, constructed or returned, references in its
\* formula only variables of its own list.
C8_Containment ==
    \A t \in Threads :
        /\ obj[t] # <<>> => Contained(Self(t))
        /\ result[t].kind \in {"abs", "frac"} => Contained(result[t].value)

\* C8 as amended: an Expression returned by calculate_absolute_uncertainty or
\* calculate_fractional_uncertainty references only its own uncertainty
\* variables and symbols of the formula it was derived from.
C8_DerivedSymbols ==
    \A t \in Threads :
        result[t].kind \in {"abs", "frac"} =>
            FormulaSymbols(result[t].value.expr) \subseteq
                Names(result[t].value.args) \cup FormulaSymbols(result[t].self.expr)

C8_Witness ==
    \E t \in Threads :
        /\ result[t].kind = "abs"
        /\ Contained(result[t].self)
        /\ ~Contained(result[t].value)
        /\ Len(result[t].value.args) = 3

Keys(values) == {k.name : k \in DOMAIN values}

\* C9 as stated: with a value for every declared variable the result of
\* evaluate has no free variable left, and no symbol that has a value stays.
C9_FullSubstitutionClosed ==
    \A t \in Threads :
        result[t].kind = "eval" =>
            /\ Names(result[t].self.args) \subseteq Keys(result[t].values) =>
                    FormulaSymbols(result[t].out) = {}
            /\ FormulaSymbols(result[t].out) \cap Keys(result[t].values) = {}

\* C9 as amended: no symbol that was given a value (by name or by Symbol) is
\* left in the result, so no declared variable is left when each has a value;
\* the symbols of the result are symbols of the formula that were given no
\* value, all of them when the formula is a single term that does not vanish;
\* and evaluate changes no Expression.
C9_Substitution ==
    /\ [](\A t \in Threads :
            result[t].kind = "eval" =>
                LET e == result[t].self.expr
                    value == result[t].out
                    left == FormulaSymbols(e) \ Keys(result[t].values)
                IN  /\ FormulaSymbols(value) \cap Keys(result[t].values) = {}
                    /\ Names(result[t].self.args) \subseteq Keys(result[t].values) =>
                            FormulaSymbols(value) \cap Names(result[t].self.args) = {}
                    /\ FormulaSymbols(value) \subseteq left
                    /\ (e.kind = "poly" /\ Cardinality(e.p) = 1 /\ value.p # Zero) =>
                            FormulaSymbols(value) = left)
    /\ [][\A t \in Threads : result'[t].kind = "eval" => obj' = obj]_vars

C9_Witness ==
    \E t \in Threads :
        /\ result[t].kind = "eval"
        /\ \E k \in DOMAIN result[t].values : k.cls = "str"
        /\ Names(result[t].self.args) \subseteq Keys(result[t].values)
        /\ FormulaSymbols(result[t].self.expr) \cap Keys(result[t].values) # {}
        /\ FormulaSymbols(result[t].out) # {}

\* The branch the shape of the absolute-uncertainty formula asks for.
BranchOfShape(shape) ==
    IF shape = "Add" THEN "per_addend"
    ELSE IF shape \in {"Mul", "Pow"} THEN "whole"
    ELSE "unevaluated"

\* C10: a sum takes the per-addend branch, a product and a power the
\* whole-expression division, anything else the unevaluated quotient.
C10_BranchByShape ==
    \A t \in Threads :
        result[t].kind = "frac" =>
            result[t].branch = BranchOfShape(TypeOf(result[t].absolute_uncertainty.expr.p))
====
